---------------------------- MODULE Spec2Model ----------------------------
(***************************************************************************)
(* State-machine model of the links server (src/src/main.rs): the process  *)
(* entry point, the axum router, the Context extractor with the lazily     *)
(* initialised DATABASE handle, the home / add_link / files / not_found    *)
(* handlers, the sqlite file behind rizz, and the embedded asset bundle.   *)
(*                                                                         *)
(* Strings are sequences of one-character strings, so that starts_with,    *)
(* trim_start_matches, replace and the extension lookup are computed the   *)
(* way the code computes them.                                             *)
(***************************************************************************)
EXTENDS Integers, Sequences, FiniteSets, TLC

(***************************************************************************)
(* Bounds of the model.                                                    *)
(***************************************************************************)
\* request tasks the server runs concurrently
NumTasks == 2
\* largest reading of the wall clock
MaxClock == 1
\* rows a database file left by earlier runs can hold at process start
MaxPre == 10

(***************************************************************************)
(* String literals of the source and of the requests that are enumerated.  *)
(***************************************************************************)
HttpsPrefix == <<"h", "t", "t", "p", "s", ":", "/", "/">>
PubPrefix == <<"p", "u", "b", "/">>
UrlA == <<"h", "t", "t", "p", "s", ":", "/", "/", "a">>
UrlB == <<"h", "t", "t", "p", "s", ":", "/", "/", "b">>
UrlHttp == <<"h", "t", "t", "p", ":", "/", "/", "a">>
PathHome == <<"/">>
PathNope == <<"/", "n", "o", "p", "e">>
PathPub == <<"/", "p", "u", "b">>
PathPubSlash == <<"/", "p", "u", "b", "/">>
PathPubx == <<"/", "p", "u", "b", "x", "/", "t", "a", "i", "l", "w", "i", "n", "d", ".", "c", "s", "s">>
PathTailwind == <<"/", "p", "u", "b", "/", "t", "a", "i", "l", "w", "i", "n", "d", ".", "c", "s", "s">>
PathHtmx == <<"/", "p", "u", "b", "/", "h", "t", "m", "x", ".", "o", "r", "g", "@", "1", ".", "9", ".", "5", ".", "j", "s">>
PathJsonEnc == <<"/", "p", "u", "b", "/", "j", "s", "o", "n", "-", "e", "n", "c", ".", "j", "s">>
PathMissing == <<"/", "p", "u", "b", "/", "d", "o", "e", "s", "-", "n", "o", "t", "-", "e", "x", "i", "s", "t", ".", "j", "s">>
PathPubPubTailwind == <<"/", "p", "u", "b", "/", "p", "u", "b", "/", "t", "a", "i", "l", "w", "i", "n", "d", ".", "c", "s", "s">>
PathNested == <<"/", "p", "u", "b", "/", "a", "/", "p", "u", "b", "/", "b", ".", "c", "s", "s">>
PathNestedFlat == <<"/", "p", "u", "b", "/", "a", "/", "b", ".", "c", "s", "s">>
PathMyPub == <<"/", "p", "u", "b", "/", "m", "y", "p", "u", "b", "/", "x", ".", "j", "s">>
PathLicense == <<"/", "p", "u", "b", "/", "L", "I", "C", "E", "N", "S", "E">>
KeyTailwind == <<"t", "a", "i", "l", "w", "i", "n", "d", ".", "c", "s", "s">>
KeyHtmx == <<"h", "t", "m", "x", ".", "o", "r", "g", "@", "1", ".", "9", ".", "5", ".", "j", "s">>
KeyJsonEnc == <<"j", "s", "o", "n", "-", "e", "n", "c", ".", "j", "s">>
KeyNestedFlat == <<"a", "/", "b", ".", "c", "s", "s">>
KeyLicense == <<"L", "I", "C", "E", "N", "S", "E">>
ExtCss == <<"c", "s", "s">>
ExtJs == <<"j", "s">>
\* letters that tell the urls of the rows of earlier runs apart
SeedChars == <<"c", "d", "e", "f", "g", "i", "j", "k", "l", "m", "n", "o", "q", "r", "u", "v">>

(***************************************************************************)
(* str methods used by the source.                                         *)
(***************************************************************************)
\* str::starts_with
starts_with(s, p) == Len(s) >= Len(p) /\ SubSeq(s, 1, Len(p)) = p

\* str::trim_start_matches(char): drops every leading occurrence
RECURSIVE trim_start_matches(_, _)
trim_start_matches(s, ch) ==
    IF s # <<>> /\ Head(s) = ch THEN trim_start_matches(Tail(s), ch) ELSE s

\* str::replace(from, to): every non-overlapping match, left to right
RECURSIVE replace(_, _, _)
replace(s, from, to) ==
    IF s = <<>> THEN <<>>
    ELSE IF starts_with(s, from)
         THEN to \o replace(SubSeq(s, Len(from) + 1, Len(s)), from, to)
         ELSE <<Head(s)>> \o replace(Tail(s), from, to)

\* index of the last occurrence of ch in s, 0 when there is none
LastIndexOf(s, ch) ==
    LET hits == {i \in 1..Len(s) : s[i] = ch}
    IN  IF hits = {} THEN 0 ELSE CHOOSE i \in hits : \A j \in hits : j <= i

\* Path::extension of the last path component: the part after its last dot,
\* <<>> when the file name has no dot or only a leading one
extension(path) ==
    LET slash == LastIndexOf(path, "/")
        name  == SubSeq(path, slash + 1, Len(path))
        dot   == LastIndexOf(name, ".")
    IN  IF dot <= 1 THEN <<>> ELSE SubSeq(name, dot + 1, Len(name))

\* mime_guess::from_path(path).first_or_octet_stream()
mime_guess(path) ==
    LET ext == extension(path)
    IN  IF ext = ExtCss THEN "text/css"
        ELSE IF ext = ExtJs THEN "application/javascript"
        ELSE "application/octet-stream"


(***************************************************************************)
(* Router (routes, lines 42-59).                                           *)
(***************************************************************************)
Methods == {"GET", "POST", "PUT"}

\* a router that takes "/" as a prefix
match_route_prefix(path) ==
    IF starts_with(path, PathPubSlash) /\ Len(path) > Len(PathPubSlash) THEN "File"
    ELSE IF starts_with(path, PathHome) THEN "Home"
    ELSE "None"

\* the path patterns of the Route enumeration: "/" matches exactly,
\* "/pub/*file" matches "/pub/" followed by a non-empty rest
match_route(path) ==
    IF path = PathHome THEN "Home"
    ELSE IF starts_with(path, PathPubSlash) /\ Len(path) > Len(PathPubSlash) THEN "File"
    ELSE "None"

\* the handler the router runs: get(home).post(add_link), get(files),
\* the method router's 405 for a matched path, the fallback otherwise
route(method, path) ==
    LET m == match_route(path)
    IN  IF m = "Home"
        THEN (IF method = "GET" THEN "home"
              ELSE IF method = "POST" THEN "add_link"
              ELSE "method_not_allowed")
        ELSE IF m = "File"
        THEN (IF method = "GET" THEN "files" ELSE "method_not_allowed")
        ELSE "not_found"

(***************************************************************************)
(* Responses.                                                              *)
(***************************************************************************)
Response(status, kind, body) ==
    [status |-> status, kind |-> kind, body |-> body, links |-> <<>>,
     error |-> "", location |-> <<>>, content_type |-> "", cache_control |-> ""]

\* impl IntoResponse for Error
into_response(err) ==
    IF err = "NotFound" THEN Response(404, "text", "not found")
    ELSE Response(500, "text", "internal server error")

\* a panicking handler task: the connection is closed, nothing is answered
NoResponse == Response(0, "panic", "")

\* axum's answer to a known path with a method no handler is declared for
MethodNotAllowed == Response(405, "text", "")

\* Redirect::to(Route::Home.into())
Redirect == [Response(303, "redirect", "") EXCEPT !.location = PathHome]

ErrorMessage == "Url needs to start with https://"

\* cx.render(HomeComponent { error, links }): the page shows the optional
\* error and one anchor per link, carrying its url
render(error, links) ==
    [Response(200, "page", "links") EXCEPT
        !.error = error,
        !.links = [i \in 1..Len(links) |-> links[i].url],
        !.content_type = "text/html; charset=utf-8"]

(***************************************************************************)
(* Static assets (files, StaticFile).                                      *)
(***************************************************************************)
\* files: the key handed to StaticFile for a request path
files(uri_path) ==
    LET path == trim_start_matches(uri_path, "/")
    IN  IF starts_with(path, PubPrefix) THEN replace(path, PubPrefix, <<>>) ELSE path

\* a response that guesses no content type
maybe_response_octet(bundle, path) ==
    IF path \notin DOMAIN bundle THEN into_response("NotFound")
    ELSE [Response(200, "asset", bundle[path]) EXCEPT
            !.content_type = "application/octet-stream",
            !.cache_control = "public, max-age=604800"]

\* StaticFile::maybe_response followed by the unwrap_or of into_response
maybe_response(bundle, path) ==
    IF path \notin DOMAIN bundle THEN into_response("NotFound")
    ELSE [Response(200, "asset", bundle[path]) EXCEPT
            !.content_type = mime_guess(path),
            !.cache_control = "public, max-age=604800"]

\* the assets the rendered page refers to (lines 194-196)
BundleShell ==
    (KeyTailwind :> "tailwind.css bytes") @@ (KeyHtmx :> "htmx.org@1.9.5.js bytes")
        @@ (KeyJsonEnc :> "json-enc.js bytes")

\* folders the bundle can have been built from
Bundles ==
    { BundleShell,
      BundleShell @@ (KeyLicense :> "LICENSE bytes"),
      BundleShell @@ (KeyLicense :> "LICENSE bytes") @@ (KeyNestedFlat :> "a/b.css bytes") }

(***************************************************************************)
(* The sqlite file behind rizz.                                            *)
(***************************************************************************)
LinksTable == "links"
LinksUrlIndex == "unique index on links(url)"

\* rizz::Error
RizzErrors ==
    {"ConnectionClosed", "Close", "Database", "MissingFrom", "InsertError",
     "SqlConversion", "RowNotFound"}

\* impl From<rizz::Error> for Error; every todo!() panics
from_rizz(value) ==
    IF value = "Database" THEN "Database"
    ELSE IF value = "RowNotFound" THEN "NotFound"
    ELSE "panic"

\* what the statement of a storage call comes to: what the engine answers,
\* or one of the faults the environment can raise
Outcomes(engine, Faults) == {engine} \cup Faults

Limit == 10

\* ORDER BY created_at DESC over the rows in rowid order: x goes behind every
\* row that is at least as recent
InsertDesc(sorted, x) ==
    LET k == Cardinality({i \in 1..Len(sorted) : sorted[i].created_at >= x.created_at})
    IN  SubSeq(sorted, 1, k) \o <<x>> \o SubSeq(sorted, k + 1, Len(sorted))

RECURSIVE OrderDesc(_)
OrderDesc(rs) ==
    IF rs = <<>> THEN <<>>
    ELSE InsertDesc(OrderDesc(SubSeq(rs, 1, Len(rs) - 1)), rs[Len(rs)])

\* Context::links: select().from(links).order(desc(created_at)).limit(10).all()
links(rs) ==
    LET ordered == OrderDesc(rs)
    IN  SubSeq(ordered, 1, IF Len(ordered) < Limit THEN Len(ordered) ELSE Limit)

\* what the engine answers to the select
select_result(sch) == IF LinksTable \in sch THEN "Ok" ELSE "Database"

\* what the engine answers to the insert: the primary key and the unique
\* index declared by migrate reject a second row of the same id or url
insert_result(sch, rs, link) ==
    IF LinksTable \notin sch THEN "Database"
    ELSE IF \E i \in 1..Len(rs) : rs[i].id = link.id THEN "Database"
    ELSE IF LinksUrlIndex \in sch /\ \E i \in 1..Len(rs) : rs[i].url = link.url
    THEN "Database"
    ELSE "Ok"

\* a migrate that declares the table alone
declared_schema_without_index == {LinksTable}

\* migrate: the schema main asks for, create_table(links) and
\* create_unique_index(links, [links.url])
declared_schema == {LinksTable, LinksUrlIndex}

\* a migration that drops the table and creates it again
rizz_migrate_recreate(sch, rs, declared) == [schema |-> declared, rows |-> <<>>]

\* the migrate() of rizz: creates what is declared and absent, keeps the rows
rizz_migrate(sch, rs, declared) == [schema |-> sch \cup declared, rows |-> rs]

\* nanoid!(): an id no stored row has
nanoid(rs) == Len(rs) + 1

\* a validation that asks for the scheme letters only
valid_url_http(url) == starts_with(url, <<"h", "t", "t", "p">>)

\* the validation of add_link
valid_url(url) == starts_with(url, HttpsPrefix)

\* the rows of a database file written by earlier runs, one per second
PreRows(k) ==
    [i \in 1..k |->
        [id |-> i, url |-> HttpsPrefix \o <<"s", SeedChars[i]>>,
         created_at |-> i]]


(***************************************************************************)
(* State.                                                                  *)
(***************************************************************************)
VARIABLES
    Files,      \* the embedded asset bundle: key -> bytes
    schema,     \* db.sqlite3: the tables and indexes it has
    rows,       \* db.sqlite3: the rows of links, in rowid order
    clock,      \* the reading of the wall clock, see now
    DATABASE,   \* the OnceLock: NoHandle until set
    opened,     \* connections this process has opened
    pc,         \* where main and each request task stand
    local,      \* the Database value each caller of database() holds
    req,        \* the request each task is serving
    last        \* the latest exchange a task has completed

vars == <<Files, schema, rows, clock, DATABASE, opened, pc, local, req, last>>

Main == 0
Tasks == 1..NumTasks
Callers == {Main} \cup Tasks
NoHandle == 0

\* a request: its method, its path and, for a POST /, the url of its JSON
\* body (every POST / carries a body that Json<LinkParams> accepts)
Request(method, path, url) == [method |-> method, path |-> path, url |-> url]

NoReq == Request("", <<>>, <<>>)

Exchange(r, handler, resp, key) ==
    [req |-> r, handler |-> handler, resp |-> resp, key |-> key]

NoLast == Exchange(NoReq, "", Response(0, "", ""), <<>>)

\* the requests about links: every method on the routes and off them, and
\* the bodies a POST / can carry
LinkPaths == {PathHome, PathNope, PathPub, PathTailwind}
LinkRequests ==
    ({Request(m, p, <<>>) : m \in Methods, p \in LinkPaths}
        \ {Request("POST", PathHome, <<>>)})
        \cup {Request("POST", PathHome, u) : u \in {UrlA, UrlB, UrlHttp}}

\* the requests about assets
AssetPaths ==
    {PathPub, PathPubSlash, PathPubx, PathTailwind, PathHtmx, PathJsonEnc, PathMissing,
     PathPubPubTailwind, PathNested, PathNestedFlat, PathMyPub, PathLicense}
AssetRequests == {Request(m, p, <<>>) : m \in Methods, p \in AssetPaths}

\* the process starts on a database file that is absent, or that earlier runs
\* have migrated and filled, at a time after the stored rows were written
InitOver(bundles, filled) ==
    /\ Files \in bundles
    /\ \E k \in filled :
          /\ rows = PreRows(k)
          /\ schema = IF k = 0 THEN {} ELSE declared_schema
    /\ clock = MaxClock
    /\ DATABASE = NoHandle
    /\ opened = 0
    /\ pc = [c \in Callers |-> IF c = Main THEN "start" ELSE "idle"]
    /\ local = [c \in Callers |-> NoHandle]
    /\ req = [t \in Tasks |-> NoReq]
    /\ last = NoLast

Init == InitOver({BundleShell}, {0, MaxPre})

(***************************************************************************)
(* The wall clock: SystemTime is not monotonic, and two readings can agree.*)
(***************************************************************************)
\* now(): the seconds since the epoch at the reading; the first reading is
\* the second before the oldest stored row, the next one the second after the
\* most recent
now == clock * (MaxPre + 1)

Tick ==
    /\ clock < MaxClock
    /\ clock' = clock + 1
    /\ UNCHANGED <<Files, schema, rows, DATABASE, opened, pc, local, req, last>>

SetBack ==
    /\ clock > 0
    /\ clock' \in 0..(clock - 1)
    /\ UNCHANGED <<Files, schema, rows, DATABASE, opened, pc, local, req, last>>

(***************************************************************************)
(* How a caller leaves a call: a task answers and is free again, main      *)
(* returns the error from main() or panics.                                *)
(***************************************************************************)
Respond(t, r, handler, resp, key) ==
    /\ pc' = [pc EXCEPT ![t] = "idle"]
    /\ req' = [req EXCEPT ![t] = NoReq]
    /\ local' = [local EXCEPT ![t] = NoHandle]
    /\ last' = Exchange(r, handler, resp, key)

\* err is "NotFound", "Database" or "panic"
Raise(c, r, err) ==
    IF c = Main
    THEN /\ pc' = [pc EXCEPT ![c] = IF err = "panic" THEN "panicked" ELSE "exit_err"]
         /\ UNCHANGED <<req, local, last>>
    ELSE Respond(c, r, route(r.method, r.path),
                 IF err = "panic" THEN NoResponse ELSE into_response(err), <<>>)

\* where a caller goes on once database() has returned Ok
after_database(c) == IF c = Main THEN "migrate" ELSE "handler"

\* a server that accepts requests while main is still starting
ServingFromTheStart == TRUE

\* the server accepts requests once main has reached Server::bind(..).serve(..)
Serving == pc[Main] = "serving"

(***************************************************************************)
(* database() (lines 279-300), step by step.                               *)
(***************************************************************************)
\* DATABASE.get(): Some(database) => database.clone(), None => go and open
database_get(c) ==
    IF DATABASE # NoHandle
    THEN /\ pc' = [pc EXCEPT ![c] = after_database(c)]
         /\ local' = [local EXCEPT ![c] = DATABASE]
    ELSE /\ pc' = [pc EXCEPT ![c] = "open"]
         /\ local' = local

\* Connection::new("db.sqlite3")...open().await?
database_open(c, Faults) ==
    /\ pc[c] = "open"
    /\ \E o \in Outcomes("Ok", Faults) :
          IF o = "Ok"
          THEN /\ opened' = opened + 1
               /\ local' = [local EXCEPT ![c] = opened + 1]
               /\ pc' = [pc EXCEPT ![c] = "set"]
               /\ UNCHANGED <<req, last>>
          ELSE /\ Raise(c, IF c = Main THEN NoReq ELSE req[c], from_rizz(o))
               /\ UNCHANGED opened
    /\ UNCHANGED <<Files, schema, rows, clock, DATABASE>>

\* DATABASE.set(database.clone()).expect(..); DATABASE.get().expect(..).clone()
database_set(c) ==
    /\ pc[c] = "set"
    /\ IF DATABASE = NoHandle
       THEN /\ DATABASE' = local[c]
            /\ pc' = [pc EXCEPT ![c] = after_database(c)]
            /\ UNCHANGED <<local, req, last>>
       ELSE /\ Raise(c, IF c = Main THEN NoReq ELSE req[c], "panic")
            /\ UNCHANGED DATABASE
    /\ UNCHANGED <<Files, schema, rows, clock, opened>>

(***************************************************************************)
(* main (lines 15-27).                                                     *)
(***************************************************************************)
\* let db = database().await?
main_database ==
    /\ pc[Main] = "start"
    /\ database_get(Main)
    /\ UNCHANGED <<Files, schema, rows, clock, DATABASE, opened, req, last>>

\* migrate(&db).await?, then the server is bound and serves
migrate(Faults) ==
    /\ pc[Main] = "migrate"
    /\ \E o \in Outcomes("Ok", Faults) :
          IF o = "Ok"
          THEN /\ schema' = rizz_migrate(schema, rows, declared_schema).schema
               /\ rows' = rizz_migrate(schema, rows, declared_schema).rows
               /\ pc' = [pc EXCEPT ![Main] = "serving"]
               /\ UNCHANGED <<req, local, last>>
          ELSE /\ Raise(Main, NoReq, from_rizz(o))
               /\ UNCHANGED <<schema, rows>>
    /\ UNCHANGED <<Files, clock, DATABASE, opened>>

\* the process ends (it returned, crashed or was stopped) and is started
\* again: the statics are fresh, the database file is what it was
Restart ==
    /\ pc[Main] # "start"
    /\ pc' = [c \in Callers |-> IF c = Main THEN "start" ELSE "idle"]
    /\ DATABASE' = NoHandle
    /\ opened' = 0
    /\ local' = [c \in Callers |-> NoHandle]
    /\ req' = [t \in Tasks |-> NoReq]
    /\ last' = NoLast
    /\ UNCHANGED <<Files, schema, rows, clock>>

(***************************************************************************)
(* Requests.                                                               *)
(***************************************************************************)
\* the router takes a request: the handlers without extractors that wait
\* (files, not_found) answer at once, home and add_link first build their
\* Context (from_request_parts, lines 232-242), which calls database()
Dispatch(t, r) ==
    /\ Serving
    /\ pc[t] = "idle"
    /\ LET handler == route(r.method, r.path)
       IN  IF handler \in {"home", "add_link"}
           THEN /\ req' = [req EXCEPT ![t] = r]
                /\ database_get(t)
                /\ UNCHANGED last
           ELSE IF handler = "files"
           THEN Respond(t, r, handler, maybe_response(Files, files(r.path)), files(r.path))
           ELSE IF handler = "not_found"
           THEN Respond(t, r, handler, into_response("NotFound"), <<>>)
           ELSE Respond(t, r, handler, MethodNotAllowed, <<>>)
    /\ UNCHANGED <<Files, schema, rows, clock, DATABASE, opened>>

\* home (lines 87-93)
home(t, Faults) ==
    /\ pc[t] = "handler"
    /\ route(req[t].method, req[t].path) = "home"
    /\ \E o \in Outcomes(select_result(schema), Faults) :
          IF o = "Ok"
          THEN Respond(t, req[t], "home", render("", links(rows)), <<>>)
          ELSE Raise(t, req[t], from_rizz(o))
    /\ UNCHANGED <<Files, schema, rows, clock, DATABASE, opened>>

\* add_link (lines 100-118)
add_link(t, Faults) ==
    /\ pc[t] = "handler"
    /\ route(req[t].method, req[t].path) = "add_link"
    /\ LET params == req[t]
           link == [id |-> nanoid(rows), url |-> params.url, created_at |-> now]
       IN  IF ~valid_url(params.url)
           THEN /\ \E o \in Outcomes(select_result(schema), Faults) :
                      IF o = "Ok"
                      THEN Respond(t, params, "add_link",
                                   render(ErrorMessage, links(rows)), <<>>)
                      ELSE Raise(t, params, from_rizz(o))
                /\ UNCHANGED rows
           ELSE \E o \in Outcomes(insert_result(schema, rows, link), Faults) :
                   IF o = "Ok"
                   THEN /\ rows' = Append(rows, link)
                        /\ Respond(t, params, "add_link", Redirect, <<>>)
                   ELSE /\ Raise(t, params, from_rizz(o))
                        /\ UNCHANGED rows
    /\ UNCHANGED <<Files, schema, clock, DATABASE, opened>>

(***************************************************************************)
(* Specifications.                                                         *)
(***************************************************************************)
NoFaults == {}

\* the server with a storage engine that answers every statement
Next ==
    \/ main_database
    \/ \E c \in Callers : database_open(c, NoFaults)
    \/ \E c \in Callers : database_set(c)
    \/ migrate(NoFaults)
    \/ Restart
    \/ Tick
    \/ SetBack
    \/ \E t \in Tasks, r \in LinkRequests : Dispatch(t, r)
    \/ \E t \in Tasks : home(t, NoFaults)
    \/ \E t \in Tasks : add_link(t, NoFaults)

Spec == Init /\ [][Next]_vars

\* the same server when any storage call can fail with any rizz::Error
NextFault ==
    \/ main_database
    \/ \E c \in Callers : database_open(c, RizzErrors)
    \/ \E c \in Callers : database_set(c)
    \/ migrate(RizzErrors)
    \/ Restart
    \/ Tick
    \/ SetBack
    \/ \E t \in Tasks, r \in LinkRequests : Dispatch(t, r)
    \/ \E t \in Tasks : home(t, RizzErrors)
    \/ \E t \in Tasks : add_link(t, RizzErrors)

SpecFault == Init /\ [][NextFault]_vars

\* the asset route alone, over the bundles and the paths under /pub
InitAssets == InitOver(Bundles, {0})

NextAssets ==
    \/ main_database
    \/ \E c \in Callers : database_open(c, NoFaults)
    \/ \E c \in Callers : database_set(c)
    \/ migrate(NoFaults)
    \/ \E t \in Tasks, r \in AssetRequests : Dispatch(t, r)

SpecAssets == InitAssets /\ [][NextAssets]_vars


(***************************************************************************)
(* Properties.                                                             *)
(***************************************************************************)
\* task t, serving a request of add_link, answers it in this step
AddLinkAnswers(t) ==
    /\ pc[t] = "handler"
    /\ req[t].method = "POST"
    /\ req[t].path = PathHome
    /\ pc'[t] = "idle"
    /\ pc'[Main] = "serving"

Stored(url) == \E i \in 1..Len(rows) : rows[i].url = url

Urls(ls) == [i \in 1..Len(ls) |-> ls[i].url]

\* C1: a POST / whose url does not start with https:// leaves the stored
\* links as they were and is answered with the home page that shows the list
\* of the stored links and the error message.
C1_RejectedUrlNotInserted ==
    [][\A t \in Tasks :
         (AddLinkAnswers(t) /\ ~starts_with(req[t].url, HttpsPrefix))
            => /\ rows' = rows
               /\ last'.req = req[t]
               /\ last'.resp.status = 200
               /\ last'.resp.kind = "page"
               /\ last'.resp.error = ErrorMessage
               /\ last'.resp.links = Urls(links(rows))]_vars

C1_Witness ==
    /\ last.handler = "add_link"
    /\ last.req.url = UrlHttp
    /\ last.resp.kind = "page"
    /\ last.resp.error = ErrorMessage
    /\ Len(last.resp.links) = Limit
    /\ Len(rows) > Limit

\* C2: after a POST / with a https:// url that no stored link has and that
\* is answered with the redirect, the list query returns exactly one entry
\* with the submitted url, and it is an entry the list did not have before.
C2_InsertedLinkIsListed ==
    [][\A t \in Tasks :
         (/\ AddLinkAnswers(t)
          /\ starts_with(req[t].url, HttpsPrefix)
          /\ ~Stored(req[t].url)
          /\ last'.resp.kind = "redirect")
            => /\ Cardinality({i \in 1..Len(links(rows')) :
                                  links(rows')[i].url = req[t].url}) = 1
               /\ \A i \in 1..Len(links(rows)) : links(rows)[i].url # req[t].url]_vars

\* C3: a POST / with a url that a stored link has is answered with 500 and
\* stores nothing, and no two stored links ever share a url.
C3_UniqueUrls ==
    [][/\ \A t \in Tasks :
            (AddLinkAnswers(t) /\ Stored(req[t].url))
               => /\ rows' = rows
                  /\ last'.req = req[t]
                  /\ last'.resp.status = 500
       /\ rows' # rows
             => \A i, j \in 1..Len(rows') : rows'[i].url = rows'[j].url => i = j]_vars

C3_Witness ==
    /\ last.handler = "add_link"
    /\ last.resp.status = 500
    /\ Stored(last.req.url)
    /\ \E i \in 1..Len(rows) : rows[i].url = UrlB

\* C4: the list query returns at most 10 entries, each strictly more recent
\* than the next, and links inserted one after the other are listed in the
\* reverse of the order of their insertion.
C4_ListStrictlyDescending ==
    LET l == links(rows)
    IN  /\ Len(l) <= Limit
        /\ \A i, j \in 1..Len(l) : i < j => l[i].created_at > l[j].created_at
        /\ \A i, j \in 1..Len(l) : i < j => l[i].id > l[j].id

\* C5: the process opens one connection at most; the handle, once set, is
\* that connection; no caller of database() fails or panics; and every task
\* past its extractor holds the handle that was set.
C5_OneConnection ==
    /\ opened <= 1
    /\ DATABASE # NoHandle => (opened = 1 /\ DATABASE = 1)
    /\ pc[Main] \notin {"exit_err", "panicked"}
    /\ last.resp.kind # "panic"
    /\ \A t \in Tasks :
          /\ pc[t] \in {"idle", "handler"}
          /\ pc[t] = "handler" => (DATABASE # NoHandle /\ local[t] = DATABASE)

C5_Witness ==
    /\ \A t \in Tasks : pc[t] = "handler" /\ local[t] = DATABASE
    /\ opened = 1

\* C6: whatever storage error a request meets, the request is answered (with
\* 404 or 500): no handler panics.
C6_StorageErrorsAnswered ==
    last.resp.kind # "panic"

\* the path matches neither "/" nor "/pub/*file"
Unmatched(path) ==
    /\ path # <<"/">>
    /\ ~(Len(path) > 5 /\ SubSeq(path, 1, 5) = <<"/", "p", "u", "b", "/">>)

\* C7: a request whose path matches no route is answered 404 "not found" by
\* the fallback whatever its method, no handler is started for it, and the
\* database is as it was.
C7_UnmatchedIsNotFound ==
    [][/\ \A t \in Tasks : req'[t] # NoReq => ~Unmatched(req'[t].path)
       /\ (last' # last /\ last'.req # NoReq /\ Unmatched(last'.req.path))
             => /\ last'.handler = "not_found"
                /\ last'.resp.status = 404
                /\ last'.resp.body = "not found"
                /\ req' = req
                /\ rows' = rows
                /\ schema' = schema]_vars

C7_Witness ==
    /\ last.req.path = PathNope
    /\ last.req.method = "POST"
    /\ last.resp.status = 404
    /\ rows # <<>>

EndsWith(s, suffix) ==
    Len(s) >= Len(suffix) /\ SubSeq(s, Len(s) - Len(suffix) + 1, Len(s)) = suffix

\* the answer to the latest GET under /pub/ is the one the bundle asks for
AssetAnswer ==
    (last.req.method = "GET" /\ last.handler = "files")
        => IF last.key \notin DOMAIN Files
           THEN last.resp.status = 404 /\ last.resp.body = "not found"
           ELSE /\ last.resp.status = 200
                /\ last.resp.body = Files[last.key]
                /\ last.resp.cache_control = "public, max-age=604800"
                /\ EndsWith(last.key, <<".", "c", "s", "s">>)
                      => last.resp.content_type = "text/css"
                /\ EndsWith(last.key, <<".", "j", "s">>)
                      => last.resp.content_type = "application/javascript"
                /\ (\A i \in 1..Len(last.key) : last.key[i] # ".")
                      => last.resp.content_type = "application/octet-stream"

C9_MigrateIdempotent ==
    [][(pc[Main] = "migrate" /\ pc'[Main] # "start" /\ pc'[Main] # "migrate")
          => /\ pc'[Main] = "serving"
             /\ rows' = rows
             /\ schema' = {LinksTable, LinksUrlIndex}
             /\ (schema = {LinksTable, LinksUrlIndex} => schema' = schema)]_vars

C9_Witness ==
    /\ pc[Main] = "serving"
    /\ schema = {LinksTable, LinksUrlIndex}
    /\ Len(rows) > MaxPre
    /\ last = NoLast

\* C10: the key looked up for a request under the asset route is the request
\* path without its leading "/pub/", and nothing else of it is removed.
C10_OnlyLeadingPrefixStripped ==
    last.handler = "files"
        => last.key = SubSeq(last.req.path, Len(PathPubSlash) + 1, Len(last.req.path))

=============================================================================
